---- MODULE Spec2Model ----
(***************************************************************************)
(* Camera flight and arc-path animation controller (MapController of      *)
(* MapBackground) together with the App handlers that drive its props.     *)
(*                                                                         *)
(* Numbers are exact rationals <<n, d>> in lowest terms with d > 0; the    *)
(* pair <<0, 0>> stands for the JavaScript value NaN.  Floating-point      *)
(* rounding is not modelled: every arithmetic result is the real number    *)
(* the expression denotes.                                                 *)
(***************************************************************************)
EXTENDS Integers, Naturals, Sequences, FiniteSets, TLC

VARIABLES
    map,                \* useMap() has returned the map instance
    activeChapter,      \* App state: id of the active chapter, "intro" or null
    exploreMode,        \* App state
    chapters,           \* the cities list, as a sequence of chapter ids
    currentChapterRef,  \* the chapter the reactor recorded last
    isAnimatingRef,     \* the flight-active flag
    center,             \* camera center of the map
    zoom,               \* camera zoom of the map
    flightPath,         \* MapBackground state: the revealed path
    rafQueue,           \* closures of the frame callbacks that are pending
    now,                \* the clock read by performance.now() and the frames
    mapOptions,         \* gesture and chrome options applied to the map
    probe,              \* a call of a geometry helper made on its own: its
                        \* arguments and, once it has returned, its result
    audio,              \* useAudioLayer: decks, refs, timers, pending play()
    store               \* useMemories: the documents and the calls under way

vars == <<map, activeChapter, exploreMode, chapters,
          currentChapterRef, isAnimatingRef,
          center, zoom, flightPath, rafQueue, now, mapOptions, probe, audio, store>>

\* the variables of the components
appVars == <<map, activeChapter, exploreMode, chapters,
             currentChapterRef, isAnimatingRef,
             center, zoom, flightPath, rafQueue, now, mapOptions>>

(***************************************************************************)
(* Bounds of the model                                                     *)
(***************************************************************************)
\* the clock stops advancing once it has passed this many milliseconds
MaxNow == 7000

\* frame-to-frame delays (ms) the display may produce
FrameSteps == {350, 700}

\* under SpecPan the clock stops advancing once it has passed this time (ms)
PanMaxNow == 3850

\* under SpecLive the user and the data source act only up to this time (ms)
LastEventAt == 3850

(***************************************************************************)
(* Rational arithmetic (JavaScript numbers, without rounding)              *)
(***************************************************************************)
NaN == <<0, 0>>

Abs(n) == IF n < 0 THEN -n ELSE n

RECURSIVE Gcd(_, _)
Gcd(a, b) == IF b = 0 THEN a ELSE Gcd(b, a % b)

\* the rational n / d; 0/0 is NaN (the model never divides a non-zero by 0)
Rat(n, d) ==
    IF d = 0 THEN NaN
    ELSE LET g == Gcd(Abs(n), Abs(d))
             s == IF d < 0 THEN -1 ELSE 1
         IN  <<(s * n) \div g, (s * d) \div g>>

Num(n) == <<n, 1>>

IsNaN(x) == x[2] = 0

RAdd(x, y) ==
    IF IsNaN(x) \/ IsNaN(y) THEN NaN
    ELSE LET g == Gcd(x[2], y[2])
             l == (x[2] \div g) * y[2]
         IN  Rat(x[1] * (l \div x[2]) + y[1] * (l \div y[2]), l)

RNeg(x) == IF IsNaN(x) THEN NaN ELSE <<-x[1], x[2]>>

RSub(x, y) == RAdd(x, RNeg(y))

RMul(x, y) ==
    IF IsNaN(x) \/ IsNaN(y) THEN NaN
    ELSE LET g1 == Gcd(Abs(x[1]), y[2])
             g2 == Gcd(Abs(y[1]), x[2])
         IN  Rat((x[1] \div g1) * (y[1] \div g2), (x[2] \div g2) * (y[2] \div g1))

RDiv(x, y) ==
    IF IsNaN(x) \/ IsNaN(y) \/ y[1] = 0 THEN NaN
    ELSE RMul(x, Rat(y[2], y[1]))

\* comparisons with NaN are false, as in JavaScript
RLess(x, y) == ~IsNaN(x) /\ ~IsNaN(y) /\ RAdd(x, <<-y[1], y[2]>>)[1] < 0

RAbs(x) == IF IsNaN(x) THEN NaN ELSE <<Abs(x[1]), x[2]>>

RMax(x, y) == IF IsNaN(x) \/ IsNaN(y) THEN NaN ELSE IF RLess(x, y) THEN y ELSE x

RMin(x, y) == IF IsNaN(x) \/ IsNaN(y) THEN NaN ELSE IF RLess(y, x) THEN y ELSE x

\* Math.ceil of a rational
Ceil(x) == -((-x[1]) \div x[2])

RCube(x) == RMul(x, RMul(x, x))

(***************************************************************************)
(* Configuration and chapter data                                          *)
(***************************************************************************)
NullId == "null"

\* MAP_CONFIG.introView
introView == [lat |-> Num(38), lng |-> Num(50), zoom |-> Num(3)]

\* MAP_CONFIG.defaultCenter (it has no zoom: defaultZoom falls back to 10)
defaultCenter == [lat |-> Num(35), lng |-> Num(40)]

FallbackZoom == 10

\* the duration the chapter-change effect passes to flyTo
FlyDuration == 3500

\* default numPoints of generateArcPath
DefaultNumPoints == 50

\* chapter records by id, coordinates in whole degrees
ChapterIds == {"lille", "brugge"}

location(id) ==
    IF id = "lille" THEN [lat |-> Num(50), lng |-> Num(3), zoom |-> Num(12)]
    ELSE [lat |-> Num(51), lng |-> Num(3), zoom |-> Num(13)]

\* values of the chapters prop (the cities list as it loads and changes)
ChapterLists == {<<>>, <<"lille", "brugge">>}

\* ids a scrolled-to section can report (null is only an initial value)
ActiveIds == ChapterIds \cup {"intro"}

(***************************************************************************)
(* Geometry                                                                *)
(***************************************************************************)
\* an easing whose second half adds the cubic term
easeInOutCubicSlip(t) ==
    IF RLess(t, Rat(1, 2))
    THEN RMul(Num(4), RCube(t))
    ELSE RAdd(Num(1), RDiv(RCube(RAdd(RMul(Num(-2), t), Num(2))), Num(2)))

easeInOutCubic(t) ==
    IF RLess(t, Rat(1, 2))
    THEN RMul(Num(4), RCube(t))
    ELSE RSub(Num(1), RDiv(RCube(RAdd(RMul(Num(-2), t), Num(2))), Num(2)))

\* perp * arcHeight for one axis: (d / length) * (distance * 0.3), where
\* length = distance = sqrt(dx*dx + dy*dy); 0 / 0 is NaN
ArcOffset(d, dx, dy) ==
    IF dx[1] = 0 /\ dy[1] = 0 THEN NaN ELSE RMul(d, Rat(3, 10))

\* one point of the quadratic Bezier curve
BezierPoint(start, control, end, t) ==
    LET oneMinusT == RSub(Num(1), t)
        B(a, c, b) == RAdd(RAdd(RMul(RMul(oneMinusT, oneMinusT), a),
                                RMul(RMul(RMul(Num(2), oneMinusT), t), c)),
                           RMul(RMul(t, t), b))
    IN  [lat |-> B(start.lat, control.lat, end.lat),
         lng |-> B(start.lng, control.lng, end.lng)]

\* a loop that stops one point early (i < numPoints)
ArcIndicesShort(numPoints) == 1..numPoints

\* the indices the loop of generateArcPath visits, shifted by one
ArcIndices(numPoints) == 1..(numPoints + 1)

generateArcPath(start, end, numPoints) ==
    LET midLat == RDiv(RAdd(start.lat, end.lat), Num(2))
        midLng == RDiv(RAdd(start.lng, end.lng), Num(2))
        dx == RSub(end.lng, start.lng)
        dy == RSub(end.lat, start.lat)
        control == [lat |-> RAdd(midLat, ArcOffset(dx, dx, dy)),
                    lng |-> RAdd(midLng, ArcOffset(RNeg(dy), dx, dy))]
    IN  [i \in ArcIndices(numPoints) |->
            BezierPoint(start, control, end, Rat(i - 1, numPoints))]

\* thresholds that also match an extent equal to them (>= for >)
calculateFitZoomInclusive(start, end) ==
    LET latDiff == RAbs(RSub(end.lat, start.lat))
        lngDiff == RAbs(RSub(end.lng, start.lng))
        maxDiff == RMax(latDiff, lngDiff)
    IN  IF ~RLess(maxDiff, Num(60)) THEN 2
        ELSE IF ~RLess(maxDiff, Num(30)) THEN 3
        ELSE IF ~RLess(maxDiff, Num(15)) THEN 4
        ELSE IF ~RLess(maxDiff, Num(8)) THEN 5
        ELSE IF ~RLess(maxDiff, Num(4)) THEN 6
        ELSE IF ~RLess(maxDiff, Num(2)) THEN 7
        ELSE IF ~RLess(maxDiff, Num(1)) THEN 8
        ELSE 9

calculateFitZoom(start, end) ==
    LET latDiff == RAbs(RSub(end.lat, start.lat))
        lngDiff == RAbs(RSub(end.lng, start.lng))
        maxDiff == RMax(latDiff, lngDiff)
    IN  IF RLess(Num(60), maxDiff) THEN 2
        ELSE IF RLess(Num(30), maxDiff) THEN 3
        ELSE IF RLess(Num(15), maxDiff) THEN 4
        ELSE IF RLess(Num(8), maxDiff) THEN 5
        ELSE IF RLess(Num(4), maxDiff) THEN 6
        ELSE IF RLess(Num(2), maxDiff) THEN 7
        ELSE IF RLess(Num(1), maxDiff) THEN 8
        ELSE 9

(***************************************************************************)
(* State after construction                                                *)
(***************************************************************************)
\* the flightPath state of MapBackground: null or an array of points
NullPath == [isNull |-> TRUE, points |-> <<>>]

PathOf(points) == [isNull |-> FALSE, points |-> points]

\* useState initial value of activeChapter in the two App variants
InitialActiveChapter(chs) ==
    {"intro", IF Len(chs) > 0 THEN chs[1] ELSE NullId}

\* defaultCenter / defaultZoom props of <Map>
MapDefault(chs) ==
    IF Len(chs) > 0
    THEN [lat |-> location(chs[1]).lat, lng |-> location(chs[1]).lng,
          zoom |-> location(chs[1]).zoom]
    ELSE [lat |-> defaultCenter.lat, lng |-> defaultCenter.lng,
          zoom |-> Num(FallbackZoom)]

\* the options the <Map> element is created with (exploreMode is false)
InitialOptions ==
    [disableDefaultUI |-> TRUE, zoomControl |-> FALSE, scaleControl |-> FALSE,
     gestureHandling |-> "none", keyboardShortcuts |-> FALSE]

\* the components after construction
Constructed ==
    /\ map = FALSE
    /\ chapters \in ChapterLists
    /\ activeChapter \in InitialActiveChapter(chapters)
    /\ exploreMode = FALSE
    /\ currentChapterRef = NullId
    /\ isAnimatingRef = FALSE
    /\ center = [lat |-> MapDefault(chapters).lat, lng |-> MapDefault(chapters).lng]
    /\ zoom = MapDefault(chapters).zoom
    /\ flightPath = NullPath
    /\ rafQueue = <<>>
    /\ now = 0
    /\ mapOptions = InitialOptions

\* no helper is called on its own
NoProbe == [fn |-> "none"]

\* the audio layer and the memories hook are not mounted
NoAudio == [mounted |-> FALSE]
NoStore == [mounted |-> FALSE]

Init == Constructed /\ probe = NoProbe /\ audio = NoAudio /\ store = NoStore

(***************************************************************************)
(* Flight animator                                                         *)
(***************************************************************************)
\* flyTo without the animating check
flyToUnguarded(m) == ~m

\* the guard of flyTo
flyToBlocked(m) == ~m \/ isAnimatingRef

IMax(a, b) == IF a > b THEN a ELSE b

\* the closure flyTo builds before it requests the first frame
NewFlight(toLocation, totalDuration, skipLine) ==
    LET startLat == center.lat
        startLng == center.lng
        start == [lat |-> startLat, lng |-> startLng]
        end == [lat |-> toLocation.lat, lng |-> toLocation.lng]
    IN  [toLocation |-> toLocation,
         totalDuration |-> totalDuration,
         skipLine |-> skipLine,
         startLat |-> startLat,
         startLng |-> startLng,
         startZoom |-> zoom,
         midLat |-> RDiv(RAdd(startLat, toLocation.lat), Num(2)),
         midLng |-> RDiv(RAdd(startLng, toLocation.lng), Num(2)),
         fitZoom |-> IMax(calculateFitZoom(start, end) - 1, 1),
         arcPath |-> generateArcPath(start, end, DefaultNumPoints),
         startTime |-> now]

\* a flyTo that leaves the drawn path in place when it starts
flyToKeepsLine(m, toLocation, totalDuration, skipLine) ==
    /\ IF flyToBlocked(m)
       THEN UNCHANGED <<isAnimatingRef, flightPath, rafQueue>>
       ELSE /\ isAnimatingRef' = TRUE
            /\ UNCHANGED flightPath
            /\ rafQueue' = Append(rafQueue, NewFlight(toLocation, totalDuration, skipLine))
    /\ UNCHANGED <<center, zoom>>

flyTo(m, toLocation, totalDuration, skipLine) ==
    /\ IF flyToBlocked(m)
       THEN UNCHANGED <<isAnimatingRef, flightPath, rafQueue>>
       ELSE /\ isAnimatingRef' = TRUE
            /\ flightPath' = NullPath
            /\ rafQueue' = Append(rafQueue, NewFlight(toLocation, totalDuration, skipLine))
    /\ UNCHANGED <<center, zoom>>

\* a first phase of 30% of the duration
phase1DurationLong(f) == RMul(Num(f.totalDuration), Rat(30, 100))

\* totalDuration * 0.2, * 0.6 and * 0.2
phase1Duration(f) == RMul(Num(f.totalDuration), Rat(20, 100))

phase2Duration(f) == RMul(Num(f.totalDuration), Rat(60, 100))

phase3Duration(f) == RMul(Num(f.totalDuration), Rat(20, 100))

\* 1, 2 or 3: the branch of tick taken at this elapsed time
PhaseOf(f, elapsed) ==
    IF RLess(Num(elapsed), phase1Duration(f)) THEN 1
    ELSE IF RLess(Num(elapsed), RAdd(phase1Duration(f), phase2Duration(f))) THEN 2
    ELSE 3

\* progress within the last phase
phase3Progress(f, elapsed) ==
    RDiv(RSub(RSub(Num(elapsed), phase1Duration(f)), phase2Duration(f)),
         phase3Duration(f))

\* lat, lng, zoom and arcProgress computed by one run of tick
TickPose(f, elapsed) ==
    LET zs == f.startZoom
        fz == Num(f.fitZoom)
        Lerp(a, b, e) == RAdd(a, RMul(RSub(b, a), e))
    IN  IF PhaseOf(f, elapsed) = 1 THEN
            LET eased == easeInOutCubic(RDiv(Num(elapsed), phase1Duration(f)))
            IN  [lat |-> Lerp(f.startLat, f.midLat, eased),
                 lng |-> Lerp(f.startLng, f.midLng, eased),
                 zoom |-> Lerp(zs, fz, eased),
                 arcProgress |-> Num(0)]
        ELSE IF PhaseOf(f, elapsed) = 2 THEN
            LET eased == easeInOutCubic(RDiv(RSub(Num(elapsed), phase1Duration(f)),
                                             phase2Duration(f)))
            IN  [lat |-> f.midLat, lng |-> f.midLng, zoom |-> fz,
                 arcProgress |-> eased]
        ELSE
            LET eased == easeInOutCubic(phase3Progress(f, elapsed))
            IN  [lat |-> Lerp(f.midLat, f.toLocation.lat, eased),
                 lng |-> Lerp(f.midLng, f.toLocation.lng, eased),
                 zoom |-> Lerp(fz, f.toLocation.zoom, eased),
                 arcProgress |-> Num(1)]

\* progress measured against the start of the last phase
totalProgressToDescent(f, elapsed) ==
    RMin(Rat(elapsed * 5, f.totalDuration * 4), Num(1))

\* Math.min(elapsed / totalDuration, 1)
totalProgress(f, elapsed) == RMin(Rat(elapsed, f.totalDuration), Num(1))

\* a slice that starts at the second point: arcPath.slice(1, ...)
RevealedFromSecond(f, arcProgress) ==
    LET visiblePoints == Ceil(RMul(arcProgress, Num(Len(f.arcPath))))
    IN  SubSeq(f.arcPath, 2, IF visiblePoints > Len(f.arcPath)
                             THEN Len(f.arcPath) ELSE visiblePoints)

\* arcPath.slice(0, Math.ceil(arcProgress * arcPath.length))
RevealedPrefix(f, arcProgress) ==
    LET visiblePoints == Ceil(RMul(arcProgress, Num(Len(f.arcPath))))
    IN  SubSeq(f.arcPath, 1, IF visiblePoints > Len(f.arcPath)
                             THEN Len(f.arcPath) ELSE visiblePoints)

\* the flight line after the progressive update of one tick
RevealStep(f, arcProgress) ==
    IF ~f.skipLine /\ RLess(Num(0), arcProgress)
    THEN PathOf(RevealedPrefix(f, arcProgress))
    ELSE flightPath

\* the flight line a finishing tick leaves
FinalPath(f, revealed) == IF ~f.skipLine THEN PathOf(f.arcPath) ELSE revealed

\* a tick that also continues at totalProgress = 1
flightNeverEnds(f, elapsed) == ~RLess(Num(1), totalProgress(f, elapsed))

\* whether tick requests another frame
flightContinues(f, elapsed) == RLess(totalProgress(f, elapsed), Num(1))

\* a tick that requests no further frame
requeueDropped(q, f) == Tail(q)

\* requestAnimationFrame(tick): the callback that ran leaves the queue and
\* is queued again for the next frame
requeue(q, f) == Append(Tail(q), f)

\* one run of the frame callback of flight f with timestamp t
tick(f, t) ==
    LET elapsed == t - f.startTime
        pose == TickPose(f, elapsed)
    IN  /\ center' = [lat |-> pose.lat, lng |-> pose.lng]
        /\ zoom' = pose.zoom
        /\ IF flightContinues(f, elapsed)
           THEN /\ flightPath' = RevealStep(f, pose.arcProgress)
                /\ rafQueue' = requeue(rafQueue, f)
                /\ UNCHANGED isAnimatingRef
           ELSE /\ isAnimatingRef' = FALSE
                /\ flightPath' = FinalPath(f, RevealStep(f, pose.arcProgress))
                /\ rafQueue' = Tail(rafQueue)

\* the display runs the pending frame callback dt ms after the last event
RunFrame(dt) ==
    /\ rafQueue # <<>>
    /\ now' = now + dt
    /\ tick(Head(rafQueue), now + dt)
    /\ UNCHANGED <<map, activeChapter, exploreMode, chapters, currentChapterRef,
                   mapOptions, probe,
                   audio, store>>

\* a frame within the modelled time span
Frame(dt) == now + dt <= MaxNow /\ RunFrame(dt)

(***************************************************************************)
(* Chapter-change reactor and viewport mode controller                     *)
(***************************************************************************)
\* an effect without the explore-mode return
exploreIgnored(em) == FALSE

\* in explore mode the effect does not navigate
exploreSuspended(em) == em

\* the effect treats a missing activeChapter and 'intro' alike
isIntroView(ac) == ac = NullId \/ ac = "intro"

\* an intro branch that jumps on every run
introJumpAlways(prev) == TRUE

\* whether the intro branch jumps: only when intro is not yet recorded
introJumpNeeded(prev) == prev # "intro"

\* a lookup whose miss is not checked
chapterAssumed(chs, ac) == TRUE

\* chapters.find((c) => c.id === activeChapter) found a chapter
chapterFound(chs, ac) == \E i \in 1..Len(chs) : chs[i] = ac

\* an effect without the same-chapter return
neverSameChapter(prev, ac) == FALSE

\* the same-chapter check
sameChapter(prev, ac) == prev = ac

\* a reactor that never suppresses the line
neverFromIntro(prev) == FALSE

\* a test that also takes the unset record for the intro
fromIntroOrUnset(prev) == prev = "intro" \/ prev = NullId

comingFromIntro(prev) == prev = "intro"

\* the body of the chapter-change effect, run with the props of this render
ChapterChangeEffect(m, ac, chs, em) ==
    IF ~m \/ exploreSuspended(em)
    THEN UNCHANGED <<currentChapterRef, isAnimatingRef, center, zoom,
                    flightPath, rafQueue>>
    ELSE IF isIntroView(ac)
    THEN IF introJumpNeeded(currentChapterRef)
         THEN /\ currentChapterRef' = "intro"
              /\ center' = [lat |-> introView.lat, lng |-> introView.lng]
              /\ zoom' = introView.zoom
              /\ flightPath' = NullPath
              /\ UNCHANGED <<isAnimatingRef, rafQueue>>
         ELSE UNCHANGED <<currentChapterRef, isAnimatingRef, center, zoom,
                         flightPath, rafQueue>>
    ELSE IF ~chapterFound(chs, ac) \/ sameChapter(currentChapterRef, ac)
    THEN UNCHANGED <<currentChapterRef, isAnimatingRef, center, zoom,
                    flightPath, rafQueue>>
    ELSE /\ currentChapterRef' = ac
         /\ flyTo(m, location(ac), FlyDuration, comingFromIntro(currentChapterRef))

\* options that keep the gestures off in either mode
GestureOptionsLocked(em) ==
    [disableDefaultUI |-> ~em, zoomControl |-> em, scaleControl |-> em,
     gestureHandling |-> "none", keyboardShortcuts |-> em]

\* the options the gesture-mode effect applies
GestureOptions(em) ==
    [disableDefaultUI |-> ~em, zoomControl |-> em, scaleControl |-> em,
     gestureHandling |-> IF em THEN "auto" ELSE "none", keyboardShortcuts |-> em]

\* a gesture-mode effect that keeps the gestures off while a flight is active
GestureEffectWhileFlying(m, em) ==
    mapOptions' = IF m THEN GestureOptions(em /\ ~isAnimatingRef') ELSE mapOptions

\* the gesture-mode effect: map.setOptions(options) once the map exists
GestureEffect(m, em) ==
    mapOptions' = IF m THEN GestureOptions(em) ELSE mapOptions

\* the effects of MapController that run after a render with these props
RunEffects(m, ac, chs, em) ==
    /\ ChapterChangeEffect(m, ac, chs, em)
    /\ GestureEffect(m, em)

(***************************************************************************)
(* Events                                                                  *)
(***************************************************************************)
\* useMap() starts returning the map instance
MapReady ==
    /\ ~map
    /\ map' = TRUE
    /\ RunEffects(TRUE, activeChapter, chapters, exploreMode)
    /\ UNCHANGED <<activeChapter, exploreMode, chapters, now, probe,
                   audio, store>>

\* App.handleChapterChange: a story section scrolled into view
handleChapterChange(chapterId) ==
    /\ chapterId # activeChapter \/ exploreMode
    /\ exploreMode' = FALSE
    /\ activeChapter' = chapterId
    /\ RunEffects(map, chapterId, chapters, FALSE)
    /\ UNCHANGED <<map, chapters, now, probe,
                   audio, store>>

\* App.handleMarkerClick: a marker of the map was clicked
handleMarkerClick(chapterId) ==
    /\ chapterFound(chapters, chapterId)
    /\ chapterId # activeChapter
    /\ activeChapter' = chapterId
    /\ RunEffects(map, chapterId, chapters, exploreMode)
    /\ UNCHANGED <<map, exploreMode, chapters, now, probe,
                   audio, store>>

\* App.handleEnterExploreMode: the explore button of the outro
handleEnterExploreMode ==
    /\ ~exploreMode
    /\ exploreMode' = TRUE
    /\ RunEffects(map, activeChapter, chapters, TRUE)
    /\ UNCHANGED <<map, activeChapter, chapters, now, probe,
                   audio, store>>

\* useCities: a snapshot sets a new cities array (possibly with equal content)
ChaptersSnapshot(list) ==
    /\ chapters' = list
    /\ RunEffects(map, activeChapter, list, exploreMode)
    /\ UNCHANGED <<map, activeChapter, exploreMode, now, probe,
                   audio, store>>

Next ==
    \/ MapReady
    \/ \E chapterId \in ActiveIds : handleChapterChange(chapterId)
    \/ \E chapterId \in ChapterIds : handleMarkerClick(chapterId)
    \/ handleEnterExploreMode
    \/ \E list \in ChapterLists : ChaptersSnapshot(list)
    \/ \E dt \in FrameSteps : Frame(dt)

Spec == Init /\ [][Next]_vars

\* The same program with the events confined to the first LastEventAt ms and
\* the frames left to run for as long as a callback is pending.  The browser
\* runs a requested frame callback at some later frame (weak fairness).
NextLive ==
    \/ now <= LastEventAt /\ MapReady
    \/ now <= LastEventAt /\ \E chapterId \in ActiveIds : handleChapterChange(chapterId)
    \/ now <= LastEventAt /\ \E chapterId \in ChapterIds : handleMarkerClick(chapterId)
    \/ now <= LastEventAt /\ handleEnterExploreMode
    \/ now <= LastEventAt /\ \E list \in ChapterLists : ChaptersSnapshot(list)
    \/ \E dt \in FrameSteps : RunFrame(dt)

\* a pending frame callback runs with a later timestamp (the step of the
\* clock that RunFrame takes)
FrameDue == rafQueue # <<>> /\ now' \in {now + dt : dt \in FrameSteps}

SpecLive == Init /\ [][NextLive]_vars /\ WF_now(FrameDue)

\* where the user drags the map to in explore mode
PanTarget == [lat |-> Num(40), lng |-> Num(10)]

\* the user drags the map, which the options of explore mode allow
UserPan ==
    /\ map
    /\ mapOptions.gestureHandling # "none"
    /\ ~isAnimatingRef
    /\ center # PanTarget
    /\ center' = PanTarget
    /\ UNCHANGED <<map, activeChapter, exploreMode, chapters, currentChapterRef,
                   isAnimatingRef, zoom, flightPath, rafQueue, now, mapOptions, probe,
                   audio, store>>

\* The program with a user who also drags the map in explore mode, over the
\* time of one flight.
NextPan ==
    \/ MapReady
    \/ \E chapterId \in ActiveIds : handleChapterChange(chapterId)
    \/ \E chapterId \in ChapterIds : handleMarkerClick(chapterId)
    \/ handleEnterExploreMode
    \/ \E list \in ChapterLists : ChaptersSnapshot(list)
    \/ \E dt \in FrameSteps : now + dt <= PanMaxNow /\ RunFrame(dt)
    \/ UserPan

SpecPan == Init /\ [][NextPan]_vars

(***************************************************************************)
(* The geometry helpers called on their own: a call is drawn with its      *)
(* arguments in the initial state and one step returns its result.         *)
(***************************************************************************)
\* largest numPoints passed to generateArcPath
MaxArcPoints == 3

\* the arguments of easeInOutCubic are the multiples of 1 / EaseGrid in [0, 1]
EaseGrid == 20

\* start and end locations of the arcs
ArcLocations == {[lat |-> Num(a), lng |-> Num(b)] : a \in {-1, 0, 2}, b \in {0, 3}}

ArcCalls ==
    {[fn |-> "generateArcPath", args |-> <<s, e, n>>, done |-> FALSE, result |-> <<>>] :
        s \in ArcLocations, e \in ArcLocations, n \in 1..MaxArcPoints}

\* extents in degrees on and next to every threshold of calculateFitZoom
FitExtents ==
    {Rat(k, 2) : k \in {0, 1, 2, 3, 4, 5, 8, 9, 16, 17, 30, 31, 60, 61, 120, 121}}

FitStarts == {[lat |-> Num(0), lng |-> Num(0)], [lat |-> Num(50), lng |-> Num(3)]}

\* the location e degrees from s along one axis and e / 2 degrees along the other
Displaced(s, e, axis, sign) ==
    LET far == RMul(Num(sign), e)
        near == RMul(Rat(-sign, 2), e)
    IN  IF axis = "lat"
        THEN [lat |-> RAdd(s.lat, far), lng |-> RAdd(s.lng, near)]
        ELSE [lat |-> RAdd(s.lat, near), lng |-> RAdd(s.lng, far)]

FitEnds(s) ==
    {Displaced(s, e, axis, sign) : e \in FitExtents, axis \in {"lat", "lng"}, sign \in {1, -1}}

\* two calls with the same start, so that their results can be compared
FitCalls ==
    UNION {{[fn |-> "calculateFitZoom", args |-> <<s, e1, e2>>, done |-> FALSE,
             result |-> <<>>] : e1 \in FitEnds(s), e2 \in FitEnds(s)} : s \in FitStarts}

\* two calls, so that their results can be compared
EaseCalls ==
    {[fn |-> "easeInOutCubic", args |-> <<Rat(i, EaseGrid), Rat(j, EaseGrid)>>,
      done |-> FALSE, result |-> <<>>] : i \in 0..EaseGrid, j \in 0..EaseGrid}

InitGeo ==
    /\ Constructed
    /\ audio = NoAudio
    /\ store = NoStore
    /\ chapters = <<>>
    /\ activeChapter = "intro"
    /\ \/ probe \in ArcCalls
       \/ probe \in FitCalls
       \/ probe \in EaseCalls

CallGenerateArcPath ==
    /\ probe.fn = "generateArcPath"
    /\ ~probe.done
    /\ probe' = [probe EXCEPT !.done = TRUE,
                              !.result = generateArcPath(probe.args[1], probe.args[2],
                                                         probe.args[3])]
    /\ UNCHANGED <<appVars, audio, store>>

CallCalculateFitZoom ==
    /\ probe.fn = "calculateFitZoom"
    /\ ~probe.done
    /\ probe' = [probe EXCEPT !.done = TRUE,
                              !.result = <<calculateFitZoom(probe.args[1], probe.args[2]),
                                           calculateFitZoom(probe.args[1], probe.args[3])>>]
    /\ UNCHANGED <<appVars, audio, store>>

CallEaseInOutCubic ==
    /\ probe.fn = "easeInOutCubic"
    /\ ~probe.done
    /\ probe' = [probe EXCEPT !.done = TRUE,
                              !.result = <<easeInOutCubic(probe.args[1]),
                                           easeInOutCubic(probe.args[2])>>]
    /\ UNCHANGED <<appVars, audio, store>>

NextGeo ==
    \/ CallGenerateArcPath
    \/ CallCalculateFitZoom
    \/ CallEaseInOutCubic

SpecGeo == InitGeo /\ [][NextGeo]_vars

(***************************************************************************)
(* useAudioLayer: two decks, the crossfade timer, the fade-out timers and  *)
(* the play() calls that have not settled.  Volumes are counted in         *)
(* sixtieths, so that the crossfade step 1/30 and the fade-out step 0.05   *)
(* are whole numbers; the timers run in any order.                         *)
(***************************************************************************)
\* volume 1
VolOne == 60

\* STEPS of the crossfade loop
STEPS == 30

\* volStep = 1 / STEPS
volStep == VolOne \div STEPS

\* vol -= 0.05 of the fade-out loop
FadeOutStep == 3

\* chapter changes the audio layer sees
MaxChapterChanges == 3

NoTrack == "null"
NoGroup == "null"

\* the ids activeChapterId takes: 'intro' is no city, the others are cities
AudioChapters == {"intro", "lille", "brugge", "gent"}

\* currentCity ? currentCity.musicGroupId : null
musicGroupId(chapterId) ==
    CASE chapterId = "lille" -> "g1"
      [] chapterId = "brugge" -> "g2"
      [] chapterId = "gent" -> "g3"
      [] OTHER -> NoGroup

\* library.filter(t => t.musicGroupId === groupId); group g3 has no track
groupTracks(groupId) ==
    CASE groupId = "g1" -> {"t1"}
      [] groupId = "g2" -> {"t2"}
      [] OTHER -> {}

OtherDeck(d) == IF d = "A" THEN "B" ELSE "A"

\* no crossfade interval is running
NoTimer == [running |-> FALSE, step |-> 0, nextDeck |-> "A", currentDeck |-> "A"]

\* the hook after its first render: two new Audio() elements, paused
AudioInit ==
    [mounted |-> TRUE,
     isReady |-> FALSE,
     activeChapterId |-> "intro",
     deck |-> [d \in {"A", "B"} |-> [playing |-> FALSE, volume |-> VolOne, src |-> NoTrack]],
     activeDeckRef |-> "A",
     fadeIntervalRef |-> NoTimer,
     fadeOuts |-> {},
     pendingPlay |-> <<>>,
     currentTrack |-> NoTrack,
     currentGroupIdRef |-> NoGroup,
     changes |-> 0]

\* loadAndCrossfade up to its await: the next deck gets the new source (which
\* ends what it played and rejects a play() still pending on it) and play()
\* is called
loadAndCrossfade(a, track) ==
    IF a.currentTrack = track THEN a
    ELSE LET nextDeck == OtherDeck(a.activeDeckRef)
         IN  [a EXCEPT !.deck[nextDeck] = [playing |-> FALSE, volume |-> 0, src |-> track],
                       !.pendingPlay =
                           Append(SelectSeq(@, LAMBDA p : p.nextDeck # nextDeck),
                                  [track |-> track, nextDeck |-> nextDeck,
                                   currentDeck |-> a.activeDeckRef])]

\* fadeOut: an interval of its own on the deck activeDeckRef names; intervals
\* on the same deck with the same vol act alike and are kept once
fadeOut(a) ==
    [a EXCEPT !.fadeOuts = @ \cup {[deck |-> a.activeDeckRef,
                                     vol |-> a.deck[a.activeDeckRef].volume]}]

\* the chapter-change effect of the hook; the results differ in the track
\* picked at random
audioEffect(a) ==
    LET groupId == musicGroupId(a.activeChapterId)
        b == [a EXCEPT !.currentGroupIdRef = groupId]
    IN  IF ~a.isReady \/ groupId = a.currentGroupIdRef THEN {a}
        ELSE IF groupId # NoGroup /\ groupTracks(groupId) # {}
        THEN {loadAndCrossfade(b, track) : track \in groupTracks(groupId)}
        ELSE {fadeOut(b)}

audioIdle == UNCHANGED <<appVars, probe, store>>

initAudio ==
    /\ audio.mounted
    /\ ~audio.isReady
    /\ audio' \in audioEffect([audio EXCEPT !.isReady = TRUE])
    /\ audioIdle

\* the activeChapterId prop changes
AudioChapterChange(chapterId) ==
    /\ audio.mounted
    /\ chapterId # audio.activeChapterId
    /\ audio.changes < MaxChapterChanges
    /\ audio' \in audioEffect([audio EXCEPT !.activeChapterId = chapterId,
                                             !.changes = @ + 1])
    /\ audioIdle

RemoveAt(q, i) == SubSeq(q, 1, i - 1) \o SubSeq(q, i + 1, Len(q))

\* nextDeck.play() resolves: the rest of loadAndCrossfade runs
PlayResolves(i) ==
    /\ audio.mounted
    /\ i \in 1..Len(audio.pendingPlay)
    /\ LET p == audio.pendingPlay[i]
       IN  audio' = [audio EXCEPT !.pendingPlay = RemoveAt(@, i),
                                  !.deck[p.nextDeck].playing = TRUE,
                                  !.fadeIntervalRef = [running |-> TRUE, step |-> 0,
                                                       nextDeck |-> p.nextDeck,
                                                       currentDeck |-> p.currentDeck],
                                  !.currentTrack = p.track]
    /\ audioIdle

\* nextDeck.play() rejects: loadAndCrossfade returns from its catch
PlayRejects(i) ==
    /\ audio.mounted
    /\ i \in 1..Len(audio.pendingPlay)
    /\ audio' = [audio EXCEPT !.pendingPlay = RemoveAt(@, i)]
    /\ audioIdle

IMin(a, b) == IF a < b THEN a ELSE b

\* one run of the crossfade interval callback
CrossfadeTick ==
    /\ audio.mounted
    /\ audio.fadeIntervalRef.running
    /\ LET t == audio.fadeIntervalRef
           step == t.step + 1
           ramped == [audio EXCEPT !.deck[t.nextDeck].volume = IMin(VolOne, step * volStep),
                                   !.deck[t.currentDeck].volume = IMax(0, VolOne - step * volStep),
                                   !.fadeIntervalRef.step = step]
       IN  audio' = IF step >= STEPS
                    THEN [ramped EXCEPT !.fadeIntervalRef = NoTimer,
                                        !.deck[t.currentDeck].playing = FALSE,
                                        !.activeDeckRef = t.nextDeck]
                    ELSE ramped
    /\ audioIdle

\* one run of the interval callback of a fadeOut
FadeOutTick(t) ==
    /\ audio.mounted
    /\ t \in audio.fadeOuts
    /\ LET vol == t.vol - FadeOutStep
       IN  audio' = IF vol <= 0
                    THEN [audio EXCEPT !.deck[t.deck].playing = FALSE,
                                       !.deck[t.deck].volume = 0,
                                       !.fadeOuts = @ \ {t},
                                       !.currentTrack = NoTrack]
                    ELSE [audio EXCEPT !.deck[t.deck].volume = vol,
                                       !.fadeOuts = (@ \ {t}) \cup {[deck |-> t.deck, vol |-> vol]}]
    /\ audioIdle

InitAudio ==
    /\ Constructed
    /\ chapters = <<>>
    /\ activeChapter = "intro"
    /\ probe = NoProbe
    /\ store = NoStore
    /\ audio = AudioInit

NextAudio ==
    \/ initAudio
    \/ \E chapterId \in AudioChapters : AudioChapterChange(chapterId)
    \/ \E i \in 1..MaxChapterChanges : PlayResolves(i)
    \/ \E i \in 1..MaxChapterChanges : PlayRejects(i)
    \/ CrossfadeTick
    \/ \E t \in audio.fadeOuts : FadeOutTick(t)

SpecAudio == InitAudio /\ [][NextAudio]_vars

(***************************************************************************)
(* useMemories: the documents of the "memories" collection, the listener's *)
(* copy of them, and the addMemory and updateCitySubtitle calls under way. *)
(* Each call is a getDoc followed by a write; the server applies the       *)
(* requests of concurrent calls in any order.  A memory is named by the    *)
(* number of the call that adds it.                                        *)
(***************************************************************************)
\* calls made in one run
MaxCalls == 3

\* the cities whose documents are written
StoreCities == {"lille", "brugge"}

\* the subtitles entered
Subtitles == {"s1"}

\* a document that does not exist
NoDoc == [exists |-> FALSE]

\* a document without a subtitle field
NoSubtitle == "null"

\* the hook after its first render
StoreInit ==
    [mounted  |-> TRUE,
     docs     |-> [c \in StoreCities |-> NoDoc],
     memories |-> [c \in StoreCities |-> <<>>],
     cityData |-> [c \in StoreCities |-> NoSubtitle],
     calls    |-> <<>>]

\* the elements of a list
Items(items) == {items[i] : i \in 1..Len(items)}

\* arrayUnion: the element is appended unless the list holds it
arrayUnion(items, m) == IF m \in Items(items) THEN items ELSE Append(items, m)

\* setDoc without merge: the document becomes exactly the data
setDoc(data) == [exists |-> TRUE, items |-> data.items, subtitle |-> data.subtitle]

storeIdle == UNCHANGED <<appVars, probe, audio>>

\* addMemory up to its await getDoc
addMemory(cityId) ==
    /\ store.mounted
    /\ Len(store.calls) < MaxCalls
    /\ store' = [store EXCEPT !.calls =
                    Append(@, [op |-> "addMemory", cityId |-> cityId,
                               newMemory |-> Len(store.calls) + 1,
                               subtitle |-> NoSubtitle,
                               pc |-> "getDoc", docSnapExists |-> FALSE])]
    /\ storeIdle

\* updateCitySubtitle up to its await getDoc
updateCitySubtitle(cityId, subtitle) ==
    /\ store.mounted
    /\ Len(store.calls) < MaxCalls
    /\ store' = [store EXCEPT !.calls =
                    Append(@, [op |-> "updateCitySubtitle", cityId |-> cityId,
                               newMemory |-> 0,
                               subtitle |-> subtitle,
                               pc |-> "getDoc", docSnapExists |-> FALSE])]
    /\ storeIdle

\* getDoc resolves: the call holds a snapshot of the document
getDocResolves(i) ==
    /\ store.mounted
    /\ i \in 1..Len(store.calls)
    /\ store.calls[i].pc = "getDoc"
    /\ store' = [store EXCEPT
                    !.calls[i].pc = "write",
                    !.calls[i].docSnapExists = store.docs[store.calls[i].cityId].exists]
    /\ storeIdle

\* the write of addMemory is applied and the call returns
addMemoryWrites(i) ==
    /\ store.mounted
    /\ i \in 1..Len(store.calls)
    /\ store.calls[i].op = "addMemory"
    /\ store.calls[i].pc = "write"
    /\ LET call == store.calls[i]
           d == store.docs[call.cityId]
       IN store' = [store EXCEPT
                       !.calls[i].pc = "done",
                       !.docs[call.cityId] =
                           IF call.docSnapExists
                           THEN [d EXCEPT !.items = arrayUnion(@, call.newMemory)]
                           ELSE setDoc([items |-> <<call.newMemory>>,
                                        subtitle |-> NoSubtitle])]
    /\ storeIdle

\* the write of updateCitySubtitle is applied and the call returns
updateCitySubtitleWrites(i) ==
    /\ store.mounted
    /\ i \in 1..Len(store.calls)
    /\ store.calls[i].op = "updateCitySubtitle"
    /\ store.calls[i].pc = "write"
    /\ LET call == store.calls[i]
           d == store.docs[call.cityId]
       IN store' = [store EXCEPT
                       !.calls[i].pc = "done",
                       !.docs[call.cityId] =
                           IF call.docSnapExists
                           THEN [d EXCEPT !.subtitle = call.subtitle]
                           ELSE setDoc([items |-> <<>>, subtitle |-> call.subtitle])]
    /\ storeIdle

\* the onSnapshot listener copies the collection
onSnapshot ==
    /\ store.mounted
    /\ LET newMemories == [c \in StoreCities |->
                              IF store.docs[c].exists THEN store.docs[c].items ELSE <<>>]
           newCityData == [c \in StoreCities |->
                              IF store.docs[c].exists THEN store.docs[c].subtitle
                                                      ELSE NoSubtitle]
       IN /\ <<newMemories, newCityData>> # <<store.memories, store.cityData>>
          /\ store' = [store EXCEPT !.memories = newMemories, !.cityData = newCityData]
    /\ storeIdle

InitStore ==
    /\ Constructed
    /\ chapters = <<>>
    /\ activeChapter = "intro"
    /\ probe = NoProbe
    /\ audio = NoAudio
    /\ store = StoreInit

NextStore ==
    \/ \E cityId \in StoreCities : addMemory(cityId)
    \/ \E cityId \in StoreCities, subtitle \in Subtitles : updateCitySubtitle(cityId, subtitle)
    \/ \E i \in 1..MaxCalls : getDocResolves(i)
    \/ \E i \in 1..MaxCalls : addMemoryWrites(i)
    \/ \E i \in 1..MaxCalls : updateCitySubtitleWrites(i)
    \/ onSnapshot

SpecStore == InitStore /\ [][NextStore]_vars

(***************************************************************************)
(* Properties                                                              *)
(***************************************************************************)
\* id is the id of a chapter of the list chs
Listed(chs, id) == id \in {chs[i] : i \in 1..Len(chs)}

\* id selects the intro view
IntroId(id) == id \in {"intro", NullId}

\* the reactor state and the animator state
animState == <<currentChapterRef, center, zoom, flightPath, isAnimatingRef, rafQueue>>

\* this step is a run of a frame callback
IsTick == now' # now

\* this step is a run of the effects in which the reactor reached flyTo
CallsFlyTo ==
    /\ currentChapterRef' # currentChapterRef
    /\ currentChapterRef' # "intro"

\* this step is a run of the effects in which flyTo passed its guard
StartsFlight == CallsFlyTo /\ map' /\ ~isAnimatingRef

\* the closure of the flight that this step started
Started == rafQueue'[Len(rafQueue')]

\* this step is the frame callback in which the running flight ends
CompletesFlight == IsTick /\ isAnimatingRef /\ ~isAnimatingRef'

\* this step runs the reactor (not suspended) with the props of the new render
ReactorRuns == now' = now /\ map' /\ ~exploreMode'

SamePose(loc) == center = [lat |-> loc.lat, lng |-> loc.lng] /\ zoom = loc.zoom

\* C1: a flyTo call made while a flight is active changes nothing: the queue of
\* frame callbacks (hence the running flight's target, start pose, start time
\* and arc), the revealed path, the flag and the camera stay as they were.
C1_AtMostOneFlight ==
    [][(CallsFlyTo /\ isAnimatingRef)
        => UNCHANGED <<rafQueue, flightPath, isAnimatingRef, center, zoom>>]_vars

\* C1 witness: a flight is running while the recorded chapter is another real
\* chapter than its target, so a flyTo call has been turned away.
C1_Witness ==
    /\ isAnimatingRef
    /\ Len(rafQueue) = 1
    /\ currentChapterRef \in ChapterIds
    /\ location(currentChapterRef) # rafQueue[1].toLocation

\* C2: the frame callback that ends a flight leaves the camera exactly at the
\* target's lat, lng and zoom.
C2_PinsTargetExactly ==
    [][CompletesFlight
        => (/\ center' = [lat |-> Head(rafQueue).toLocation.lat,
                          lng |-> Head(rafQueue).toLocation.lng]
            /\ zoom' = Head(rafQueue).toLocation.zoom)]_vars

\* C3: the frame with elapsed >= totalDuration of a flight that draws its line
\* sets the revealed path to the whole arc and clears the flag in that step,
\* and a flyTo call made while the flag is clear starts a flight.
C3_CompletionUnblocks ==
    /\ [][(/\ IsTick
           /\ now' - Head(rafQueue).startTime >= Head(rafQueue).totalDuration
           /\ ~Head(rafQueue).skipLine)
          => (/\ flightPath' = PathOf(Head(rafQueue).arcPath)
              /\ ~isAnimatingRef'
              /\ rafQueue' = <<>>)]_vars
    /\ [][StartsFlight
          => (/\ isAnimatingRef'
              /\ Len(rafQueue') = 1
              /\ Started.toLocation = location(currentChapterRef')
              /\ Started.startTime = now)]_vars

\* C3 witness: a flight that drew its line has ended and the next flight,
\* requested afterwards, is running.
C3_Witness ==
    /\ isAnimatingRef
    /\ Len(rafQueue) = 1
    /\ rafQueue[1].startTime >= FlyDuration
    /\ ~rafQueue[1].skipLine

\* C4: a change to a real chapter processed while 'intro' is recorded starts
\* its flight with skipLine = true, and while a skipLine flight runs and when
\* it ends the revealed path is null.
C4_IntroSuppressesLine ==
    /\ [][(StartsFlight /\ currentChapterRef = "intro")
          => (Started.skipLine /\ flightPath' = NullPath)]_vars
    /\ [](\A i \in 1..Len(rafQueue) : rafQueue[i].skipLine => flightPath = NullPath)
    /\ [][(IsTick /\ Head(rafQueue).skipLine) => flightPath' = NullPath]_vars

\* C4 witness: a skipLine flight has run to its end: the camera rests with a
\* real chapter recorded and no line.
C4_Witness ==
    /\ ~isAnimatingRef
    /\ now >= FlyDuration
    /\ currentChapterRef \in ChapterIds
    /\ flightPath = NullPath

\* C5: a change from a recorded real chapter to another real chapter starts
\* its flight with skipLine = false, the arc of every flight has
\* numPoints + 1 points, and when a flight that draws its line ends the
\* revealed path has exactly that many points.
C5_NormalDrawsLine ==
    /\ [][(StartsFlight /\ currentChapterRef \in ChapterIds)
          => (/\ ~Started.skipLine
              /\ Len(Started.arcPath) = DefaultNumPoints + 1)]_vars
    /\ [][(CompletesFlight /\ ~Head(rafQueue).skipLine)
          => (/\ ~flightPath'.isNull
              /\ Len(flightPath'.points) = DefaultNumPoints + 1)]_vars

\* C5 witness: the second flight, from one real chapter to the other, has
\* ended with the whole arc revealed.
C5_Witness ==
    /\ ~isAnimatingRef
    /\ now >= 2 * FlyDuration
    /\ currentChapterRef \in ChapterIds
    /\ ~flightPath.isNull
    /\ Len(flightPath.points) = DefaultNumPoints + 1

\* C6: while exploreMode is true no run of the effects (whatever changed:
\* the active chapter, the chapters list, exploreMode itself) starts a
\* flight, jumps, clears the path, moves the camera or changes the record.
C6_ExploreSuspends ==
    [][(now' = now /\ exploreMode') => UNCHANGED animState]_vars

\* C6 witness: in explore mode the active chapter is a chapter of the list
\* that the reactor has not recorded.
C6_Witness ==
    /\ map
    /\ exploreMode
    /\ activeChapter \in ChapterIds
    /\ Listed(chapters, activeChapter)
    /\ currentChapterRef # activeChapter

\* C7: a run of the reactor with the real chapter that is already recorded
\* (the same id delivered again) starts no flight and changes no state.
C7_DuplicateIdempotent ==
    [][(/\ ReactorRuns
        /\ activeChapter' \in ChapterIds
        /\ Listed(chapters', activeChapter')
        /\ activeChapter' = currentChapterRef)
       => UNCHANGED animState]_vars

\* C7 witness: the flight to the recorded chapter has ended and the chapter
\* is still the active one, so every further delivery is a duplicate.
C7_Witness ==
    /\ map
    /\ ~exploreMode
    /\ ~isAnimatingRef
    /\ now >= FlyDuration
    /\ activeChapter \in ChapterIds
    /\ activeChapter = currentChapterRef
    /\ Listed(chapters, activeChapter)

\* C8: a run of the reactor with active chapter 'intro' or null jumps to the
\* intro pose, clears the path and records 'intro' in one step when 'intro'
\* is not recorded, and changes nothing when it is.
C8_IntroJump ==
    /\ [][(ReactorRuns /\ IntroId(activeChapter') /\ currentChapterRef # "intro")
          => (/\ center' = [lat |-> introView.lat, lng |-> introView.lng]
              /\ zoom' = introView.zoom
              /\ flightPath' = NullPath
              /\ currentChapterRef' = "intro"
              /\ UNCHANGED <<isAnimatingRef, rafQueue>>)]_vars
    /\ [][(ReactorRuns /\ IntroId(activeChapter') /\ currentChapterRef = "intro")
          => UNCHANGED animState]_vars

\* C8 witness: after a flight the camera is back at the intro pose with
\* 'intro' recorded and no line.
C8_Witness ==
    /\ currentChapterRef = "intro"
    /\ now > 0
    /\ SamePose(introView)
    /\ flightPath = NullPath

\* C9: a step in which exploreMode goes from true to false and the active
\* chapter id stays the same starts no flight and does not move the camera.
C9_LeavingExploreNoFlight ==
    [][(exploreMode /\ ~exploreMode' /\ activeChapter' = activeChapter)
        => UNCHANGED <<isAnimatingRef, rafQueue, center, zoom>>]_vars

\* C10: a run of the reactor with a non-intro id that is not in the chapters
\* list changes nothing (no flight, pose, path and record as before); and the
\* snapshot that brings the chapter into the list starts the flight to it
\* when no flight is running and the id is not the recorded one.
C10_MissingChapterNoop ==
    /\ [][(/\ ReactorRuns
           /\ ~IntroId(activeChapter')
           /\ ~Listed(chapters', activeChapter'))
          => UNCHANGED animState]_vars
    /\ [][(/\ ReactorRuns
           /\ activeChapter' = activeChapter
           /\ ~IntroId(activeChapter)
           /\ ~Listed(chapters, activeChapter)
           /\ Listed(chapters', activeChapter)
           /\ currentChapterRef # activeChapter
           /\ ~isAnimatingRef)
          => (/\ isAnimatingRef'
              /\ Len(rafQueue') = 1
              /\ Started.toLocation = location(activeChapter)
              /\ currentChapterRef' = activeChapter)]_vars

\* C10 witness: the reactor has run with an active id that the list does not
\* hold, and the id is not the recorded one.
C10_Witness ==
    /\ map
    /\ ~exploreMode
    /\ activeChapter \in ChapterIds
    /\ ~Listed(chapters, activeChapter)
    /\ currentChapterRef # activeChapter

\* C11: under fair scheduling of the frame callbacks every flight that is
\* active eventually ends: the flag is cleared and no frame callback is left
\* pending.
C11_FlightTerminates ==
    isAnimatingRef ~> (~isAnimatingRef /\ rafQueue = <<>>)

\* C11 witness: a flight that was started has reached elapsed >= totalDuration
\* and ended: the clock passed its duration, nothing is pending and its target
\* is recorded.
C11_Witness ==
    /\ ~isAnimatingRef
    /\ rafQueue = <<>>
    /\ now >= FlyDuration
    /\ currentChapterRef \in ChapterIds
    /\ ~exploreMode

\* C12: while a flight is active a step that is not a frame callback (a
\* change of exploreMode, of the active chapter, of the chapters list) leaves
\* the flag set and the pending callback with its target, start pose and
\* start time as they were; every frame callback sets the camera to the pose
\* of that flight at its elapsed time; and a callback with
\* elapsed < totalDuration keeps the flag set and the same callback pending.
C12_NotAborted ==
    /\ [][(isAnimatingRef /\ ~IsTick)
          => (isAnimatingRef' /\ rafQueue' = rafQueue)]_vars
    /\ [][IsTick
          => LET f == Head(rafQueue)
                 pose == TickPose(f, now' - f.startTime)
             IN  center' = [lat |-> pose.lat, lng |-> pose.lng] /\ zoom' = pose.zoom]_vars
    /\ [][(IsTick /\ now' - Head(rafQueue).startTime < Head(rafQueue).totalDuration)
          => (isAnimatingRef' /\ rafQueue' = rafQueue)]_vars

\* C12 witness: explore mode was entered and the active chapter changed while
\* a flight was active, and the flight has gone on into its second phase.
C12_Witness ==
    /\ isAnimatingRef
    /\ exploreMode
    /\ Len(rafQueue) = 1
    /\ now - rafQueue[1].startTime >= 1400
    /\ activeChapter # currentChapterRef

C14_ViewportFollowsMode ==
    /\ [](map => (/\ (mapOptions.gestureHandling # "none") = exploreMode
                  /\ mapOptions.zoomControl = exploreMode
                  /\ mapOptions.scaleControl = exploreMode
                  /\ mapOptions.keyboardShortcuts = exploreMode
                  /\ mapOptions.disableDefaultUI = ~exploreMode))
    /\ [][(map /\ exploreMode' = exploreMode) => mapOptions' = mapOptions]_vars

\* C14 witness: explore mode was entered with the map present, so the
\* options were applied again with the controls on.
C14_Witness ==
    /\ map
    /\ exploreMode
    /\ mapOptions.gestureHandling = "auto"
    /\ mapOptions.zoomControl
    /\ ~mapOptions.disableDefaultUI

\* a call of fn has returned
Returned(fn) == probe.fn = fn /\ probe.done

\* C15: for every start and end location, equal ones included, and every
\* numPoints >= 1 the path generateArcPath returns begins with start and its
\* point of index numPoints (the last one) is end.
C15_ArcEndpoints ==
    Returned("generateArcPath")
        => (/\ Len(probe.result) = probe.args[3] + 1
            /\ probe.result[1] = probe.args[1]
            /\ probe.result[probe.args[3] + 1] = probe.args[2])

\* a coordinate pair without NaN
Defined(point) == ~IsNaN(point.lat) /\ ~IsNaN(point.lng)

\* C16: a flight started with the camera center equal to its target has the
\* repeated point as its arc, and no state shows NaN in the camera center,
\* the zoom or a point of the revealed path.
C16_CoincidentNoNaN ==
    /\ \A i \in 1..Len(rafQueue) :
          LET f == rafQueue[i]
              start == [lat |-> f.startLat, lng |-> f.startLng]
          IN  start = [lat |-> f.toLocation.lat, lng |-> f.toLocation.lng]
                => \A k \in 1..Len(f.arcPath) : f.arcPath[k] = start
    /\ Defined(center)
    /\ ~IsNaN(zoom)
    /\ \A k \in 1..Len(flightPath.points) : Defined(flightPath.points[k])

\* max(|dlat|, |dlng|) of two locations
Extent(start, end) ==
    LET dlat == RSub(end.lat, start.lat)
        dlng == RSub(end.lng, start.lng)
        adlat == IF dlat[1] < 0 THEN RNeg(dlat) ELSE dlat
        adlng == IF dlng[1] < 0 THEN RNeg(dlng) ELSE dlng
    IN  IF RLess(adlat, adlng) THEN adlng ELSE adlat

\* the zoom the threshold table gives for extent e
TableZoom(e) ==
    CASE RLess(Num(60), e) -> 2
      [] ~RLess(Num(60), e) /\ RLess(Num(30), e) -> 3
      [] ~RLess(Num(30), e) /\ RLess(Num(15), e) -> 4
      [] ~RLess(Num(15), e) /\ RLess(Num(8), e) -> 5
      [] ~RLess(Num(8), e) /\ RLess(Num(4), e) -> 6
      [] ~RLess(Num(4), e) /\ RLess(Num(2), e) -> 7
      [] ~RLess(Num(2), e) /\ RLess(Num(1), e) -> 8
      [] ~RLess(Num(1), e) -> 9

\* C17: calculateFitZoom returns the zoom of the threshold table for the
\* extent e = max(|dlat|, |dlng|) of its arguments (2 if e > 60, 3 if e > 30,
\* 4 if e > 15, 5 if e > 8, 6 if e > 4, 7 if e > 2, 8 if e > 1, else 9), and
\* of two calls the one with the larger extent does not return the larger
\* zoom.
C17_FitZoomTable ==
    Returned("calculateFitZoom")
        => LET e1 == Extent(probe.args[1], probe.args[2])
               e2 == Extent(probe.args[1], probe.args[3])
           IN  /\ probe.result[1] = TableZoom(e1)
               /\ probe.result[2] = TableZoom(e2)
               /\ ~RLess(e2, e1) => probe.result[1] >= probe.result[2]

\* C17 witness: two calls have returned, one with an extent of exactly 60
\* degrees and zoom 3, one with a larger extent and zoom 2.
C17_Witness ==
    /\ Returned("calculateFitZoom")
    /\ Extent(probe.args[1], probe.args[2]) = Num(60)
    /\ RLess(Num(60), Extent(probe.args[1], probe.args[3]))
    /\ probe.result = <<3, 2>>

\* C18: easeInOutCubic(0) = 0, easeInOutCubic(1) = 1, and for a <= b on the
\* grid of [0, 1] easeInOutCubic(a) <= easeInOutCubic(b).
C18_EaseMonotone ==
    Returned("easeInOutCubic")
        => LET a == probe.args[1]
               b == probe.args[2]
           IN  /\ a = Num(0) => probe.result[1] = Num(0)
               /\ a = Num(1) => probe.result[1] = Num(1)
               /\ ~RLess(b, a) => ~RLess(probe.result[2], probe.result[1])

\* C18 witness: the calls at 1/2 and at 1 have returned 1/2 and 1.
C18_Witness ==
    /\ Returned("easeInOutCubic")
    /\ probe.args = <<Rat(1, 2), Num(1)>>
    /\ probe.result = <<Rat(1, 2), Num(1)>>

\* this step is a frame callback with elapsed in [20%, 80%) of totalDuration
Phase2Frame ==
    /\ IsTick
    /\ 5 * (now' - Head(rafQueue).startTime) >= Head(rafQueue).totalDuration
    /\ 5 * (now' - Head(rafQueue).startTime) < 4 * Head(rafQueue).totalDuration

\* the midpoint of the start center and the target of flight f
Midpoint(f) ==
    [lat |-> RDiv(RAdd(f.startLat, f.toLocation.lat), Num(2)),
     lng |-> RDiv(RAdd(f.startLng, f.toLocation.lng), Num(2))]

\* start center and target of flight f as the arguments of calculateFitZoom
FlightStart(f) == [lat |-> f.startLat, lng |-> f.startLng]
FlightEnd(f) == [lat |-> f.toLocation.lat, lng |-> f.toLocation.lng]

NullOrPrefixOf(path, arc) ==
    \/ path = NullPath
    \/ /\ ~path.isNull
       /\ Len(path.points) <= Len(arc)
       /\ \A k \in 1..Len(path.points) : path.points[k] = arc[k]

\* the number of points the frame of flight f at this elapsed time reveals
\* (0 before the first frame and while arcProgress is 0)
RevealedAt(f, elapsed) ==
    IF elapsed > 0 /\ RLess(Num(0), TickPose(f, elapsed).arcProgress)
    THEN Len(RevealedPrefix(f, TickPose(f, elapsed).arcProgress))
    ELSE 0

\* C20: every frame callback of a flight that draws its line leaves the
\* revealed path null or a prefix of the flight's arc, not shorter than the
\* path it found and not shorter than what the flight's previous frame
\* revealed, and takes a phase branch that is not before the branch of the
\* previous frame.
C20_RevealGrows ==
    [][(IsTick /\ ~Head(rafQueue).skipLine)
        => LET f == Head(rafQueue)
           IN  /\ NullOrPrefixOf(flightPath', f.arcPath)
               /\ Len(flightPath'.points) >= Len(flightPath.points)
               /\ Len(flightPath'.points) >= RevealedAt(f, now - f.startTime)
               /\ PhaseOf(f, now' - f.startTime) >= PhaseOf(f, now - f.startTime)]_vars

\* C20 witness: a flight that draws its line is in its second phase with a
\* part of its arc revealed, more than one point and less than the whole.
C20_Witness ==
    /\ isAnimatingRef
    /\ Len(rafQueue) = 1
    /\ ~rafQueue[1].skipLine
    /\ ~flightPath.isNull
    /\ Len(flightPath.points) > 1
    /\ Len(flightPath.points) < Len(rafQueue[1].arcPath)
    /\ now - rafQueue[1].startTime >= 1400

\* C21: the step in which a flight starts leaves the revealed path null, and
\* every frame callback with elapsed < 20% of totalDuration leaves it null.
C21_StartClearsPath ==
    /\ [][StartsFlight => flightPath' = NullPath]_vars
    /\ [][(IsTick /\ 5 * (now' - Head(rafQueue).startTime) < Head(rafQueue).totalDuration)
          => flightPath' = NullPath]_vars

\* C21 witness: a second flight that draws its line, started after an
\* earlier flight had time to end, is in its first phase with no path shown.
C21_Witness ==
    /\ isAnimatingRef
    /\ Len(rafQueue) = 1
    /\ ~rafQueue[1].skipLine
    /\ rafQueue[1].startTime >= FlyDuration
    /\ now > rafQueue[1].startTime
    /\ 5 * (now - rafQueue[1].startTime) < rafQueue[1].totalDuration
    /\ flightPath = NullPath

\* C22: in every state at most one frame callback is pending, and one is
\* pending exactly when the flight-active flag is set.
C22_OnePendingFrame ==
    /\ Len(rafQueue) <= 1
    /\ (rafQueue # <<>>) = isAnimatingRef

\* C22 witness: the intro was processed and explore mode entered while a
\* flight was under way; one callback is pending and the flag is set.
C22_Witness ==
    /\ isAnimatingRef
    /\ Len(rafQueue) = 1
    /\ now > rafQueue[1].startTime
    /\ currentChapterRef = "intro"
    /\ exploreMode

\* the reactor has nothing to do for active chapter ac: it is recorded
\* already, or it is not 'intro' and not in the list
ReactorIdle(chs, ac) ==
    \/ ac = currentChapterRef /\ (ac = "intro" \/ Listed(chs, ac))
    \/ ~IntroId(ac) /\ ~Listed(chs, ac)

\* the options of explore mode and of guided mode
OptionsOf(em) ==
    [disableDefaultUI |-> ~em, zoomControl |-> em, scaleControl |-> em,
     gestureHandling |-> IF em THEN "auto" ELSE "none", keyboardShortcuts |-> em]

\* C23: a step that changes exploreMode with the map present applies the
\* options of the new mode and, when it enters explore mode or leaves it
\* with nothing for the reactor to do, leaves the flag, the pending frame,
\* the camera pose, the revealed path and the recorded chapter unchanged;
\* and a step that does not change exploreMode (a chapter change, a list
\* change, a frame) leaves the options of an existing map unchanged.
C23_ModeOrthogonal ==
    /\ [][(map /\ exploreMode' # exploreMode)
          => mapOptions' = OptionsOf(exploreMode')]_vars
    /\ [][(/\ map
           /\ exploreMode' # exploreMode
           /\ exploreMode' \/ ReactorIdle(chapters', activeChapter'))
          => UNCHANGED animState]_vars
    /\ [][(map /\ exploreMode' = exploreMode) => mapOptions' = mapOptions]_vars

\* C23 witness: explore mode was entered during a flight: the controls are
\* on and the flight is still running with frames behind it.
C23_Witness ==
    /\ map
    /\ exploreMode
    /\ isAnimatingRef
    /\ now > rafQueue[1].startTime
    /\ mapOptions = OptionsOf(TRUE)

\* C24: when a flight ends in guided mode with a real chapter of the list
\* recorded as current, the flight that ends is the one to that chapter's
\* location, so the camera comes to rest at the recorded chapter.
C24_NoChangeLost ==
    [][(/\ CompletesFlight
        /\ ~exploreMode
        /\ currentChapterRef \in ChapterIds
        /\ Listed(chapters, currentChapterRef))
       => Head(rafQueue).toLocation = location(currentChapterRef)]_vars

C27_ReturnRestoresView ==
    [][(/\ map
        /\ exploreMode
        /\ ~exploreMode'
        /\ ~isAnimatingRef
        /\ center = PanTarget
        /\ activeChapter' \in ChapterIds
        /\ Listed(chapters', activeChapter'))
       => (/\ isAnimatingRef'
           /\ Len(rafQueue') = 1
           /\ Started.toLocation = location(activeChapter'))]_vars

\* no interval of the audio layer is running
NoFadeTimer == ~audio.fadeIntervalRef.running /\ audio.fadeOuts = {}

\* deck d can be heard
Audible(d) == audio.deck[d].playing /\ audio.deck[d].volume > 0

\* the active chapter has no music group or a group without tracks
SilentChapter ==
    \/ musicGroupId(audio.activeChapterId) = NoGroup
    \/ groupTracks(musicGroupId(audio.activeChapterId)) = {}

\* C28: once the audio layer is ready, has processed the change to a chapter
\* without music, and every timer has finished and every play() has settled
\* (nothing further can happen without a chapter change), no deck can be
\* heard: each is paused or at volume 0.
C28_SilenceReached ==
    (/\ audio.mounted
     /\ audio.isReady
     /\ SilentChapter
     /\ NoFadeTimer
     /\ audio.pendingPlay = <<>>)
    => \A d \in {"A", "B"} : ~Audible(d)

\* C29: in every state in which no fade timer is running, currentTrack is
\* null exactly when no deck is playing.
C29_TrackReflectsPlaying ==
    (audio.mounted /\ NoFadeTimer)
    => ((audio.currentTrack = NoTrack) = (\A d \in {"A", "B"} : ~audio.deck[d].playing))

\* every call has returned
AllCallsDone == \A i \in 1..Len(store.calls) : store.calls[i].pc = "done"

\* the memories whose addMemory call on the city has returned
Added(cityId) ==
    {store.calls[i].newMemory : i \in {j \in 1..Len(store.calls) :
        /\ store.calls[j].op = "addMemory"
        /\ store.calls[j].cityId = cityId
        /\ store.calls[j].pc = "done"}}

\* the memories the city's document holds
Stored(cityId) ==
    IF store.docs[cityId].exists THEN Items(store.docs[cityId].items) ELSE {}

\* C30: once every call has returned, the document of each city holds every
\* memory whose addMemory call returned, whatever the order in which the
\* getDoc and write requests of the calls were served.
C30_NoMemoryLost ==
    (store.mounted /\ AllCallsDone)
    => \A cityId \in StoreCities : Added(cityId) \subseteq Stored(cityId)

====
